---- MODULE Spec2Model ----
(***************************************************************************)
(* A model of photos.py, the photo organizer: main walks a source tree,    *)
(* resolves a date for every file (get_best_date), classifies it by        *)
(* extension, creates <dest>/<category>/<YYYY>/<YYYY>-<MM> (create_dir)    *)
(* and copies the file there without overwriting (copy_file).              *)
(*                                                                         *)
(* Text is modelled character by character: a Python str is a sequence of  *)
(* one-character strings, so that split, join, splitext, lower and str     *)
(* are computed as Python computes them.  Timestamps are counted in whole  *)
(* months since January of BaseYear; strftime renders year and month from  *)
(* them and a fixed day and time of day.  Paths are POSIX paths.  The       *)
(* source tree is not changed by a run and does not hold the destination.  *)
(* main may be run again after it returned; a run that raises ends the     *)
(* behaviour.                                                              *)
(***************************************************************************)
EXTENDS Integers, Sequences, FiniteSets, TLC

\* ------------------------------------------------------------------ bounds

\* The largest number of files in the walked source tree.
MaxFiles == 3
\* The largest number of times main is run against the same destination.
MaxRuns == 2

\* ------------------------------------------------------- program constants

\* The Exif tag of the date and time the picture was taken.
DateTimeOriginal == 36867
\* Another Exif tag (DateTime), present in pictures that lack the first.
OtherTag == 306
\* The year of timestamp 0.
BaseYear == 2019

\* ------------------------------------------------------------ Python text

sep == "/"

None == <<"None">>

Min(a, b) == IF a < b THEN a ELSE b

\* s.find(c): the first index of character c in s, 0 when absent (1-based).
find(s, c) ==
  IF \E i \in 1..Len(s) : s[i] = c
  THEN CHOOSE i \in 1..Len(s) : s[i] = c /\ \A j \in 1..(i - 1) : s[j] # c
  ELSE 0

\* s.rfind(c): the last index of character c in s, 0 when absent (1-based).
rfind(s, c) ==
  IF \E i \in 1..Len(s) : s[i] = c
  THEN CHOOSE i \in 1..Len(s) : s[i] = c /\ \A j \in (i + 1)..Len(s) : s[j] # c
  ELSE 0

\* s.split(c) for a one-character separator: always at least one part.
RECURSIVE split(_, _)
split(s, c) ==
  LET i == find(s, c)
  IN IF i = 0 THEN <<s>>
     ELSE <<SubSeq(s, 1, i - 1)>> \o split(SubSeq(s, i + 1, Len(s)), c)

\* c.join(parts)
RECURSIVE join(_, _)
join(c, parts) ==
  IF Len(parts) = 0 THEN <<>>
  ELSE IF Len(parts) = 1 THEN parts[1]
  ELSE parts[1] \o <<c>> \o join(c, Tail(parts))

Digits == <<"0", "1", "2", "3", "4", "5", "6", "7", "8", "9">>

\* str(n) for an integer n >= 0: its decimal digits.
RECURSIVE str(_)
str(n) == IF n < 10 THEN <<Digits[n + 1]>> ELSE str(n \div 10) \o <<Digits[(n % 10) + 1]>>

\* n in decimal, zero-padded to two digits (%m) and to four (%Y).
pad2(n) == IF n < 10 THEN <<"0">> \o str(n) ELSE str(n)

pad4(n) ==
  IF n < 10 THEN <<"0", "0", "0">> \o str(n)
  ELSE IF n < 100 THEN <<"0", "0">> \o str(n)
  ELSE IF n < 1000 THEN <<"0">> \o str(n)
  ELSE str(n)

UpperCase == <<"A", "B", "C", "D", "E", "F", "G", "H", "I", "J", "K", "L", "M",
               "N", "O", "P", "Q", "R", "S", "T", "U", "V", "W", "X", "Y", "Z">>

LowerCase == <<"a", "b", "c", "d", "e", "f", "g", "h", "i", "j", "k", "l", "m",
               "n", "o", "p", "q", "r", "s", "t", "u", "v", "w", "x", "y", "z">>

\* s.lower()
lower(s) ==
  [i \in 1..Len(s) |->
     IF \E k \in 1..26 : UpperCase[k] = s[i]
     THEN LowerCase[CHOOSE k \in 1..26 : UpperCase[k] = s[i]]
     ELSE s[i]]

\* os.path.join(a, b) on a POSIX path.
path_join(a, b) ==
  IF Len(b) > 0 /\ b[1] = sep THEN b
  ELSE IF Len(a) = 0 \/ a[Len(a)] = sep THEN a \o b
  ELSE a \o <<sep>> \o b

\* os.path.splitext(p): <<root, ext>>.  The extension starts at the last dot
\* of the last path component, unless only dots precede it there.
splitext(p) ==
  LET sepIndex == rfind(p, sep)
      dotIndex == rfind(p, ".")
  IN IF dotIndex > sepIndex
        /\ \E k \in (sepIndex + 1)..(dotIndex - 1) : p[k] # "."
     THEN <<SubSeq(p, 1, dotIndex - 1), SubSeq(p, dotIndex, Len(p))>>
     ELSE <<p, <<>>>>

\* ------------------------------------------------------------- the files

\* The text of Python string literals, one character per element.
S_d == <<"d">>
S_s == <<"s">>
S_st == <<"s", "/", "t", ".", "d">>
S_Pictures == <<"P", "i", "c", "t", "u", "r", "e", "s">>
S_Videos == <<"V", "i", "d", "e", "o", "s">>
S_Other == <<"O", "t", "h", "e", "r">>
S_a_jpg == <<"a", ".", "j", "p", "g">>
S_a1_jpg == <<"a", "-", "1", ".", "j", "p", "g">>
S_a2_jpg == <<"a", "-", "2", ".", "j", "p", "g">>
S_c_JPG == <<"c", ".", "J", "P", "G">>
S_b_mp4 == <<"b", ".", "m", "p", "4">>
S_my_photo_jpg == <<"m", "y", ".", "p", "h", "o", "t", "o", ".", "j", "p", "g">>
S_README == <<"R", "E", "A", "D", "M", "E">>
S_hidden == <<".", "h", "i", "d", "d", "e", "n">>
S_Thumbs_db == <<"T", "h", "u", "m", "b", "s", ".", "d", "b">>
S_DS_Store == <<".", "D", "S", "_", "S", "t", "o", "r", "e">>
S_desktop_ini == <<"d", "e", "s", "k", "t", "o", "p", ".", "i", "n", "i">>
S_date_2020_01 == <<"2", "0", "2", "0", ":", "0", "1", ":", "1", "5", " ",
                    "1", "0", ":", "0", "0", ":", "0", "0">>
S_date_2017_06 == <<"2", "0", "1", "7", ":", "0", "6", ":", "1", "9", " ",
                    "1", "2", ":", "2", "6", ":", "1", "6">>
S_day_time == <<":", "0", "1", " ", "1", "2", ":", "0", "0", ":", "0", "0">>

\* What Image.open(path)._getexif() does on a file: it raises (not an image,
\* corrupt, no _getexif), returns None, or returns a mapping of tags.
NotImage == [raises |-> TRUE, none |-> FALSE, tags |-> <<>>]
NoExif == [raises |-> FALSE, none |-> TRUE, tags |-> <<>>]
EmptyExif == [raises |-> FALSE, none |-> FALSE, tags |-> <<>>]
ExifWithout == [raises |-> FALSE, none |-> FALSE,
                tags |-> [t \in {OtherTag} |-> S_date_2017_06]]
ExifWith(v) == [raises |-> FALSE, none |-> FALSE,
                tags |-> [t \in {OtherTag, DateTimeOriginal} |->
                            IF t = DateTimeOriginal THEN v ELSE S_date_2017_06]]

File(root, name, content, exif, ctime, mtime) ==
  [root |-> root, name |-> name, content |-> content, exif |-> exif,
   ctime |-> ctime, mtime |-> mtime]

\* The files a source tree is drawn from: every combination of directory,
\* name shape, metadata and timestamps the program distinguishes.
Catalogue ==
  { File(S_s, S_a_jpg, 1, ExifWith(S_date_2020_01), 30, 31),
    File(S_st, S_a_jpg, 2, ExifWith(S_date_2020_01), 40, 40),
    File(S_s, S_a1_jpg, 3, NoExif, 12, 14),
    File(S_s, S_c_JPG, 4, ExifWith(<<>>), 20, 20),
    File(S_s, S_b_mp4, 5, NotImage, 17, 5),
    File(S_s, S_my_photo_jpg, 6, ExifWithout, 12, 13),
    File(S_st, S_README, 7, NotImage, 5, 5),
    File(S_st, S_hidden, 8, EmptyExif, 5, 6),
    File(S_s, S_Thumbs_db, 9, NotImage, 12, 12),
    File(S_st, S_DS_Store, 10, NotImage, 12, 12),
    File(S_st, S_desktop_ini, 11, ExifWith(S_date_2017_06), 8, 9) }

\* A file of the destination: the source's content and modification time
\* when copy2 completed, a truncated content or the time of the copy otherwise.
Truncated == 0
Now == 99

Stored(content, mtime) == [content |-> content, mtime |-> mtime]

\* os.path.isdir in the place of os.path.exists: a file is not seen.
exists_isdir(fs_files, fs_dirs, p) == p \in fs_dirs

\* os.path.exists(p)
exists(fs_files, fs_dirs, p) == p \in DOMAIN fs_files \/ p \in fs_dirs

\* The proper ancestors of path p.
Ancestors(p) == {SubSeq(p, 1, i - 1) : i \in {k \in 2..Len(p) : p[k] = sep}}

\* os.makedirs(p): p and every missing ancestor of it.
makedirs(fs_dirs, p) == fs_dirs \cup Ancestors(p) \cup {p}

\* What a failed os.makedirs(p) may leave behind: the ancestors down to some depth.
makedirs_partial(fs_dirs, p) ==
  {fs_dirs \cup {a \in Ancestors(p) : Len(a) <= n} : n \in 0..Len(p)}

\* shutil.copy2(source, dst): the content and the timestamps of the source.
copy2(fs_files, f, dst) ==
  [p \in DOMAIN fs_files \cup {dst} |->
     IF p = dst THEN Stored(f.content, f.mtime) ELSE fs_files[p]]

\* What a failed shutil.copy2 may leave behind: nothing, a truncated file, or
\* the whole content without the source's timestamps.
copy2_partial(fs_files, f, dst) ==
  {fs_files}
  \cup {[p \in DOMAIN fs_files \cup {dst} |->
           IF p = dst THEN Stored(c, Now) ELSE fs_files[p]] : c \in {Truncated, f.content}}

\* ------------------------------------------------------------ the program

\* time.strftime('%Y:%m:%d %I:%M:%S', time.localtime(t))
strftime(t) == pad4(BaseYear + (t \div 12)) \o <<":">> \o pad2((t % 12) + 1) \o S_day_time

\* get_best_date taking the later of the two file times.
get_best_date_latest(f) ==
  LET info == IF f.exif.raises THEN NoExif ELSE f.exif
  IN IF ~info.none /\ DateTimeOriginal \in DOMAIN info.tags
     THEN <<info.tags[DateTimeOriginal], TRUE>>
     ELSE <<strftime(IF f.mtime < f.ctime THEN f.ctime ELSE f.mtime), FALSE>>

\* get_best_date(full_path) on file f: <<best_date, exif>>.  An error of
\* Image.open or _getexif leaves info None.
get_best_date(f) ==
  LET info == IF f.exif.raises THEN NoExif ELSE f.exif
      truthy == ~info.none /\ DOMAIN info.tags # {}
  IN IF truthy /\ DateTimeOriginal \in DOMAIN info.tags
     THEN <<info.tags[DateTimeOriginal], TRUE>>
     ELSE LET created_date == f.ctime
              modified_date == f.mtime
              ctime == IF modified_date < created_date THEN modified_date
                       ELSE created_date
          IN <<strftime(ctime), FALSE>>

\* create_dir: whether parts[1] raises IndexError, and new_dir otherwise.
create_dir_raises(date_string) == Len(split(date_string, ":")) < 2

\* create_dir without the directory of the year.
create_dir_flat(base_dir, date_string, media_dir) ==
  LET parts == split(date_string, ":")
  IN path_join(path_join(base_dir, media_dir), parts[1] \o <<"-">> \o parts[2])

create_dir(base_dir, date_string, media_dir) ==
  LET parts == split(date_string, ":")
  IN path_join(path_join(path_join(base_dir, media_dir), parts[1]),
               parts[1] \o <<"-">> \o parts[2])

\* The name copy_file tries after append collisions.
new_name_for(source_file_name, append) ==
  LET name_parts == split(source_file_name, ".")
  IN join(".", [name_parts EXCEPT ![1] = @ \o <<"-">> \o str(append)])

\* The loop of copy_file counting append up by two after the first collision.
RECURSIVE copy_file_loop_skip(_, _, _, _, _)
copy_file_loop_skip(fs_files, fs_dirs, source_file_name, dest_dir, st) ==
  IF exists(fs_files, fs_dirs, st.dest_full_path)
  THEN LET append == st.append + 2
           new_name == new_name_for(source_file_name, append)
       IN copy_file_loop_skip(fs_files, fs_dirs, source_file_name, dest_dir,
                              [append |-> append, new_name |-> new_name,
                               dest_full_path |-> path_join(dest_dir, new_name)])
  ELSE st

\* The while loop of copy_file, from the state st = [append, new_name,
\* dest_full_path] to the state it ends in.
RECURSIVE copy_file_loop(_, _, _, _, _)
copy_file_loop(fs_files, fs_dirs, source_file_name, dest_dir, st) ==
  IF exists(fs_files, fs_dirs, st.dest_full_path)
  THEN LET append == st.append + 1
           new_name == new_name_for(source_file_name, append)
       IN copy_file_loop(fs_files, fs_dirs, source_file_name, dest_dir,
                         [append |-> append, new_name |-> new_name,
                          dest_full_path |-> path_join(dest_dir, new_name)])
  ELSE st

\* copy_file without the loop: the file is written under its own name.
copy_file_overwrite(fs_files, fs_dirs, source_file_name, dest_dir) ==
  [dest_full_path |-> path_join(dest_dir, source_file_name), append |-> 0, ret |-> None]

\* copy_file up to the call of copy2: where the file will be written, and
\* what the function will return.
copy_file(fs_files, fs_dirs, source_file_name, dest_dir) ==
  LET st == copy_file_loop(fs_files, fs_dirs, source_file_name, dest_dir,
                           [append |-> 0, new_name |-> None,
                            dest_full_path |-> path_join(dest_dir, source_file_name)])
  IN [dest_full_path |-> st.dest_full_path, append |-> st.append,
      ret |-> IF st.append > 0 THEN st.new_name ELSE None]

photo_exts ==
  { <<".", "j", "p", "g">>, <<".", "p", "n", "g">>, <<".", "j", "p", "e", "g">>,
    <<".", "t", "i", "f", "f">>, <<".", "t", "i", "f">>, <<".", "b", "m", "p">>,
    <<".", "g", "i", "f">>, <<".", "c", "r", "w">> }

video_exts ==
  { <<".", "m", "o", "v">>, <<".", "m", "p", "4">>, <<".", "m", "4", "v">>,
    <<".", "m", "p", "g">>, <<".", "m", "p", "e", "g">>, <<".", "o", "g", "v">>,
    <<".", "f", "l", "v">>, <<".", "a", "v", "i">>, <<".", "w", "m", "v">>,
    <<".", "w", "e", "b", "m">> }

ignore_files == {S_Thumbs_db, S_DS_Store, S_desktop_ini}

\* The ignore list without .DS_Store.
is_ignored_partial(name) == name \in {S_Thumbs_db, S_desktop_ini}

is_ignored(name) == name \in ignore_files

media_dir_of(file_ext) ==
  IF file_ext \in photo_exts THEN S_Pictures
  ELSE IF file_ext \in video_exts THEN S_Videos
  ELSE S_Other

\* What one iteration of main's loop computes for file f before it copies.
Visit(f) ==
  LET full_path == path_join(f.root, f.name)
      file_ext == lower(splitext(full_path)[2])
      best == get_best_date(f)
  IN [full_path |-> full_path, file_ext |-> file_ext,
      best_date |-> best[1], had_exif |-> best[2],
      media_dir |-> media_dir_of(file_ext)]

\* file_exts[file_ext] = 1 in both branches.
count_ext_reset(exts, file_ext) ==
  [e \in DOMAIN exts \cup {file_ext} |-> IF e = file_ext THEN 1 ELSE exts[e]]

\* file_exts after one more file of extension file_ext (a dict of counts).
count_ext(exts, file_ext) ==
  IF file_ext \in DOMAIN exts
  THEN [exts EXCEPT ![file_ext] = @ + 1]
  ELSE [e \in DOMAIN exts \cup {file_ext} |-> IF e = file_ext THEN 1 ELSE exts[e]]

\* A handler around the loop body that goes on with the loop.
swallow(exc) == "walking"

\* Where control goes when the loop body raises: main has no handler, the
\* exception ends the run.
propagate(exc) == "aborted"

\* The lines log writes, as records: one per processed file, one per rename,
\* and the summary block.
FileLine(v) ==
  [kind |-> "file", had_exif |-> v.had_exif, best_date |-> v.best_date,
   full_path |-> v.full_path]

RenamedLine(name, new_name) ==
  [kind |-> "renamed", name |-> name, new_name |-> new_name]

\* ---------------------------------------------------------------- the state

VARIABLES
  walk,           \* the files os.walk yields, in its order
  dest0,          \* the files of the destination before the first run
  pc,             \* "idle", "walking", "done" or "aborted"
  runs,           \* the runs of main that returned
  idx,            \* the position in walk of the next file
  total_files, ignored_files, total_exif, total_photos, total_videos,
  file_exts,      \* extension -> count
  files,          \* the destination's files: path -> stored file
  dirs,           \* the destination's directories
  log_file,       \* the lines of log.txt
  copied,         \* the paths this run's copy_file calls wrote
  files_at_start, \* the destination's files when this run started
  lastDir,        \* the last call of create_dir
  lastCopy,       \* the last call of copy_file that returned
  cause           \* the exception that ended the run, "none" without one

vars == <<walk, dest0, pc, runs, idx, total_files, ignored_files, total_exif,
          total_photos, total_videos, file_exts, files, dirs, log_file, copied,
          files_at_start, lastDir, lastCopy, cause>>

counters == <<total_files, ignored_files, total_exif, total_photos, total_videos,
              file_exts>>

dest_dir == S_d

\* The directory holding path p.
dirname(p) == SubSeq(p, 1, rfind(p, sep) - 1)

S_dir_2020_01 == create_dir(dest_dir, S_date_2020_01, S_Pictures)

\* The contents a destination may have before the first run.
PreDest ==
  { <<>>,
    [p \in {path_join(S_dir_2020_01, S_a_jpg), path_join(S_dir_2020_01, S_a2_jpg)} |->
       IF p = path_join(S_dir_2020_01, S_a_jpg) THEN Stored(90, 1) ELSE Stored(91, 2)] }

\* The source trees: up to MaxFiles files of the catalogue.  os.walk yields a
\* directory's files, in any order, before those of its subdirectories.
Walks ==
  {w \in UNION {[1..n -> Catalogue] : n \in 0..MaxFiles} :
     \A i, j \in DOMAIN w :
        /\ i # j => w[i] # w[j]
        /\ i < j => ~(w[i].root = S_st /\ w[j].root = S_s)}

NoCall == [called |-> FALSE]

Init ==
  /\ walk \in Walks
  /\ dest0 \in PreDest
  /\ pc = "idle"
  /\ runs = 0
  /\ idx = 1
  /\ total_files = 0 /\ ignored_files = 0 /\ total_exif = 0
  /\ total_photos = 0 /\ total_videos = 0
  /\ file_exts = <<>>
  /\ files = dest0
  /\ dirs = UNION {makedirs({}, dirname(p)) : p \in DOMAIN dest0}
  /\ log_file = <<>>
  /\ copied = {}
  /\ files_at_start = dest0
  /\ lastDir = NoCall
  /\ lastCopy = NoCall
  /\ cause = "none"

\* main, from its start to the loop: the counters are zero and log.txt is empty.
Start ==
  /\ pc \in {"idle", "done"}
  /\ runs < MaxRuns
  /\ pc' = "walking"
  /\ idx' = 1
  /\ total_files' = 0 /\ ignored_files' = 0 /\ total_exif' = 0
  /\ total_photos' = 0 /\ total_videos' = 0
  /\ file_exts' = <<>>
  /\ log_file' = <<>>
  /\ copied' = {}
  /\ files_at_start' = files
  /\ lastDir' = NoCall
  /\ lastCopy' = NoCall
  /\ UNCHANGED <<walk, dest0, runs, files, dirs, cause>>

\* Lines 134-153 of the loop body on file f: the counters.
Counted(v) ==
  /\ total_files' = total_files + 1
  /\ file_exts' = count_ext(file_exts, v.file_ext)
  /\ total_exif' = IF v.had_exif THEN total_exif + 1 ELSE total_exif
  /\ total_photos' = IF v.file_ext \in photo_exts THEN total_photos + 1 ELSE total_photos
  /\ total_videos' = IF v.file_ext \notin photo_exts /\ v.file_ext \in video_exts
                     THEN total_videos + 1 ELSE total_videos

InLoop == pc = "walking" /\ idx <= Len(walk)

\* The call of create_dir in the loop body: new_dir and the directories after.
DirCall(v) ==
  LET new_dir == create_dir(dest_dir, v.best_date, v.media_dir)
      after == IF exists(files, dirs, new_dir) THEN dirs ELSE makedirs(dirs, new_dir)
  IN [called |-> TRUE, date_string |-> v.best_date, media_dir |-> v.media_dir,
      new_dir |-> new_dir, dirs_before |-> dirs, dirs_after |-> after]

\* One iteration on a file of the ignore list.
ProcessIgnored ==
  /\ InLoop
  /\ LET f == walk[idx]
         v == Visit(f)
     IN /\ is_ignored(f.name)
        /\ Counted(v)
        /\ ignored_files' = ignored_files + 1
        /\ log_file' = Append(log_file, FileLine(v))
  /\ idx' = idx + 1
  /\ UNCHANGED <<walk, dest0, pc, runs, files, dirs, copied, files_at_start,
                 lastDir, lastCopy, cause>>

\* One iteration that creates the directory and copies the file.
ProcessCopied ==
  /\ InLoop
  /\ LET f == walk[idx]
         v == Visit(f)
     IN /\ ~is_ignored(f.name)
        /\ ~create_dir_raises(v.best_date)
        /\ Counted(v)
        /\ LET d == DirCall(v)
               c == copy_file(files, d.dirs_after, f.name, d.new_dir)
           IN /\ dirs' = d.dirs_after
              /\ lastDir' = d
              /\ files' = copy2(files, f, c.dest_full_path)
              /\ copied' = copied \cup {c.dest_full_path}
              /\ lastCopy' = [called |-> TRUE, source_file_name |-> f.name,
                              dest_dir |-> d.new_dir, content |-> f.content,
                              mtime |-> f.mtime, files_before |-> files,
                              dirs_before |-> d.dirs_after, append |-> c.append,
                              ret |-> c.ret, dest_full_path |-> c.dest_full_path]
              /\ log_file' = IF c.ret # None /\ Len(c.ret) > 0
                             THEN log_file \o <<FileLine(v), RenamedLine(f.name, c.ret)>>
                             ELSE Append(log_file, FileLine(v))
  /\ idx' = idx + 1
  /\ UNCHANGED <<walk, dest0, pc, runs, ignored_files, files_at_start, cause>>

\* One iteration in which create_dir raises IndexError: the date has no
\* second ':'-separated part.
ProcessIndexError ==
  /\ InLoop
  /\ LET f == walk[idx]
         v == Visit(f)
     IN /\ ~is_ignored(f.name)
        /\ create_dir_raises(v.best_date)
        /\ Counted(v)
        /\ log_file' = Append(log_file, FileLine(v))
  /\ pc' = propagate("IndexError")
  /\ cause' = "IndexError"
  /\ UNCHANGED <<walk, dest0, runs, idx, ignored_files, files, dirs, copied,
                 files_at_start, lastDir, lastCopy>>

\* One iteration in which os.makedirs raises OSError.
ProcessMakedirsError ==
  /\ InLoop
  /\ LET f == walk[idx]
         v == Visit(f)
     IN /\ ~is_ignored(f.name)
        /\ ~create_dir_raises(v.best_date)
        /\ ~exists(files, dirs, DirCall(v).new_dir)
        /\ Counted(v)
        /\ dirs' \in makedirs_partial(dirs, DirCall(v).new_dir)
        /\ log_file' = Append(log_file, FileLine(v))
  /\ pc' = propagate("OSError")
  /\ cause' = "OSError"
  /\ UNCHANGED <<walk, dest0, runs, idx, ignored_files, files, copied,
                 files_at_start, lastDir, lastCopy>>

\* One iteration in which shutil.copy2 raises OSError.
ProcessCopyError ==
  /\ InLoop
  /\ LET f == walk[idx]
         v == Visit(f)
     IN /\ ~is_ignored(f.name)
        /\ ~create_dir_raises(v.best_date)
        /\ Counted(v)
        /\ LET d == DirCall(v)
               c == copy_file(files, d.dirs_after, f.name, d.new_dir)
           IN /\ dirs' = d.dirs_after
              /\ lastDir' = d
              /\ files' \in copy2_partial(files, f, c.dest_full_path)
        /\ log_file' = Append(log_file, FileLine(v))
  /\ pc' = propagate("OSError")
  /\ cause' = "OSError"
  /\ UNCHANGED <<walk, dest0, runs, idx, ignored_files, copied, files_at_start,
                 lastCopy>>

\* The summary block after the loop, and the return of main.
Finish ==
  /\ pc = "walking"
  /\ idx > Len(walk)
  /\ log_file' = Append(log_file,
                        [kind |-> "summary", total_files |-> total_files,
                         ignored_files |-> ignored_files, total_photos |-> total_photos,
                         total_videos |-> total_videos, total_exif |-> total_exif,
                         file_exts |-> file_exts])
  /\ pc' = "done"
  /\ runs' = runs + 1
  /\ UNCHANGED <<walk, dest0, idx, counters, files, dirs, copied, files_at_start,
                 lastDir, lastCopy, cause>>

Next ==
  \/ Start
  \/ ProcessIgnored
  \/ ProcessCopied
  \/ ProcessIndexError
  \/ ProcessMakedirsError
  \/ ProcessCopyError
  \/ Finish

Spec == Init /\ [][Next]_vars

\* ---------------------------------------------------------------- the claims

\* The names of the ignore list, as the claims state them.
IgnoreListed(name) ==
  \/ name = <<"T", "h", "u", "m", "b", "s", ".", "d", "b">>
  \/ name = <<".", "D", "S", "_", "S", "t", "o", "r", "e">>
  \/ name = <<"d", "e", "s", "k", "t", "o", "p", ".", "i", "n", "i">>

\* The files of the walk before position n that are not on the ignore list.
NotIgnoredBefore(n) == {i \in 1..(n - 1) : ~IgnoreListed(walk[i].name)}

\* The lines of the log that report a processed file, and the others.
FileLines == SelectSeq(log_file, LAMBDA l : l.kind = "file")

SummaryLines == SelectSeq(log_file, LAMBDA l : l.kind = "summary")

RenamedLines == SelectSeq(log_file, LAMBDA l : l.kind = "renamed")

\* The last component of path p.
basename(p) == SubSeq(p, rfind(p, sep) + 1, Len(p))

RECURSIVE SumOver(_, _)
SumOver(f, S) ==
  IF S = {} THEN 0
  ELSE LET e == CHOOSE x \in S : TRUE IN f[e] + SumOver(f, S \ {e})

\* Whether file f carries a readable date-taken tag.
ReadableTag(f) ==
  ~f.exif.raises /\ ~f.exif.none /\ DateTimeOriginal \in DOMAIN f.exif.tags

\* A date string of the form YYYY:MM:...
WellFormedDate(d) ==
  /\ Len(d) >= 8
  /\ d[5] = ":" /\ d[8] = ":"
  /\ \A i \in {1, 2, 3, 4, 6, 7} : d[i] # ":"

\* C1: copy_file never overwrites.  Every step keeps every file of the
\* destination under its name with its content, and a step in which copy_file
\* returns adds exactly one new file, holding the source file's content.
C1_NeverOverwrites ==
  [][/\ \A p \in DOMAIN files : p \in DOMAIN files' /\ files'[p] = files[p]
     /\ (pc = "walking" /\ copied' # copied) =>
          \E q \in DOMAIN files' :
             /\ q \notin DOMAIN files
             /\ DOMAIN files' = DOMAIN files \cup {q}
             /\ files'[q].content = walk[idx].content]_vars

\* Two different source files of the same name were copied into one
\* directory: both are there, the second under a disambiguated name.
C1_Witness ==
  /\ lastCopy.called
  /\ lastCopy.append > 0
  /\ LET first == path_join(lastCopy.dest_dir, lastCopy.source_file_name)
     IN /\ first \in copied
        /\ files[first].content # lastCopy.content
        /\ files[lastCopy.dest_full_path].content = lastCopy.content

\* C2: a second run of main on the same source tree overwrites nothing of
\* the first.  When a run returns, the files the destination held at its
\* start are unchanged, the run has added one file per source file not on
\* the ignore list, every one of them under a disambiguated name from the
\* second run on, and after k runs the destination holds k times that many
\* files more than before the first run.
C2_RepeatedRuns ==
  pc = "done" =>
    LET n == Cardinality(NotIgnoredBefore(Len(walk) + 1))
    IN /\ \A p \in DOMAIN files_at_start :
             p \in DOMAIN files /\ files[p] = files_at_start[p]
       /\ Cardinality(DOMAIN files) = Cardinality(DOMAIN files_at_start) + n
       /\ Cardinality(DOMAIN files) = Cardinality(DOMAIN dest0) + (runs * n)
       /\ runs >= 2 => Len(RenamedLines) = n

\* Two runs returned on a tree of at least two copied files, into a
\* destination that was empty.
C2_Witness ==
  /\ pc = "done"
  /\ runs = 2
  /\ DOMAIN dest0 = {}
  /\ Cardinality(NotIgnoredBefore(Len(walk) + 1)) >= 2
  /\ Cardinality(DOMAIN files) = 2 * Cardinality(NotIgnoredBefore(Len(walk) + 1))

\* C3: a file on the ignore list is counted as ignored and never copied: the
\* iteration on it leaves the destination's files and directories as they
\* were, adds one to the ignored counter, to total files and to the
\* extension histogram, writes the file's log line with its resolved date,
\* and moves the exif, photo and video counters as for any other file; and
\* no file this run has written bears a name of the ignore list.
C3_IgnoredFiles ==
  /\ [](\A p \in copied : ~IgnoreListed(basename(p)))
  /\ [][(pc = "walking" /\ idx <= Len(walk) /\ IgnoreListed(walk[idx].name)) =>
          LET f == walk[idx]
              ext == lower(splitext(path_join(f.root, f.name))[2])
          IN /\ files' = files /\ dirs' = dirs /\ copied' = copied
             /\ ignored_files' = ignored_files + 1
             /\ total_files' = total_files + 1
             /\ SumOver(file_exts', DOMAIN file_exts')
                  = SumOver(file_exts, DOMAIN file_exts) + 1
             /\ log_file' = Append(log_file,
                  [kind |-> "file", had_exif |-> ReadableTag(f),
                   best_date |-> IF ReadableTag(f) THEN f.exif.tags[DateTimeOriginal]
                                 ELSE strftime(Min(f.ctime, f.mtime)),
                   full_path |-> path_join(f.root, f.name)])
             /\ total_exif' = total_exif + (IF ReadableTag(f) THEN 1 ELSE 0)
             /\ total_photos' = total_photos + (IF ext \in photo_exts THEN 1 ELSE 0)
             /\ total_videos' = total_videos + (IF ext \in video_exts THEN 1 ELSE 0)
             /\ pc' = "walking" /\ idx' = idx + 1]_vars

\* A file of the ignore list that carries a date-taken tag was processed
\* after a copied file: it is counted as ignored and in the exif counter.
C3_Witness ==
  /\ pc = "walking"
  /\ idx > 2
  /\ IgnoreListed(walk[idx - 1].name)
  /\ ReadableTag(walk[idx - 1])
  /\ ignored_files >= 1
  /\ total_exif >= 1
  /\ copied # {}

\* C4: get_best_date follows the date policy.  The log line of every
\* processed file carries the date-taken tag with the exif mark when the tag
\* is readable, and otherwise the earlier of creation and modification time,
\* formatted, without the mark; a metadata error ends no run.
C4_BestDate ==
  /\ cause \in {"none", "OSError", "IndexError"}
  /\ Len(FileLines) <= Len(walk)
  /\ \A j \in 1..Len(FileLines) :
        LET f == walk[j]
            l == FileLines[j]
        IN IF ReadableTag(f)
           THEN l.best_date = f.exif.tags[DateTimeOriginal] /\ l.had_exif
           ELSE l.best_date = strftime(Min(f.ctime, f.mtime)) /\ ~l.had_exif

\* Processed: a file with the tag, a file that is no image and whose
\* modification time is the earlier one, and a picture without the tag
\* whose creation time is the earlier one.
C4_Witness ==
  /\ \E j \in 1..Len(FileLines) : ReadableTag(walk[j]) /\ FileLines[j].had_exif
  /\ \E j \in 1..Len(FileLines) :
        walk[j].exif.raises /\ walk[j].mtime < walk[j].ctime /\ ~FileLines[j].had_exif
  /\ \E j \in 1..Len(FileLines) :
        /\ ~walk[j].exif.raises /\ ~ReadableTag(walk[j])
        /\ walk[j].ctime < walk[j].mtime

\* C5: on a collision the disambiguator goes immediately before the
\* extension: the new name is <root>-<N><ext> for the root and extension of
\* the source name.
C5_BeforeExtension ==
  (lastCopy.called /\ lastCopy.append > 0) =>
    lastCopy.ret = splitext(lastCopy.source_file_name)[1] \o <<"-">>
                     \o str(lastCopy.append) \o splitext(lastCopy.source_file_name)[2]

\* C6: the search of copy_file tries N = 1, 2, 3, ... and stops at the
\* smallest free one.  It returns None exactly when the source name was
\* free, and the file is then written under it; otherwise the source name
\* and every name of a smaller N existed, the name of N did not, and the
\* file was written under the name of N, which is returned.
C6_SmallestFree ==
  lastCopy.called =>
    LET c == lastCopy
        taken(p) == p \in DOMAIN c.files_before \/ p \in c.dirs_before
        own == path_join(c.dest_dir, c.source_file_name)
        nth(k) == path_join(c.dest_dir, new_name_for(c.source_file_name, k))
    IN /\ (c.ret = None) <=> ~taken(own)
       /\ c.ret = None => c.dest_full_path = own
       /\ c.ret # None =>
            \E N \in 1..(Cardinality(DOMAIN c.files_before) + 1) :
               /\ c.ret = new_name_for(c.source_file_name, N)
               /\ c.dest_full_path = nth(N)
               /\ \A k \in 1..(N - 1) : taken(nth(k))
       /\ ~taken(c.dest_full_path)
       /\ c.dest_full_path \in DOMAIN files
       /\ files[c.dest_full_path].content = c.content

\* The search passed a first disambiguated name that existed, and took a later one.
C6_Witness ==
  /\ lastCopy.called
  /\ lastCopy.append >= 2
  /\ lastCopy.ret = new_name_for(lastCopy.source_file_name, lastCopy.append)

\* C7: create_dir maps a date YYYY:MM:... to <root>/<category>/YYYY/YYYY-MM
\* and makes it exist with every segment above it; it removes nothing, and
\* when the directory exists already (as at a second call with the same
\* inputs) the same path is returned and the tree is left as it was.
C7_CreateDir ==
  (lastDir.called /\ WellFormedDate(lastDir.date_string)) =>
    LET d == lastDir
        yyyy == SubSeq(d.date_string, 1, 4)
        mm == SubSeq(d.date_string, 6, 7)
    IN /\ d.new_dir = dest_dir \o <<"/">> \o d.media_dir \o <<"/">> \o yyyy
                        \o <<"/">> \o yyyy \o <<"-">> \o mm
       /\ d.new_dir \in d.dirs_after
       /\ dest_dir \o <<"/">> \o d.media_dir \o <<"/">> \o yyyy \in d.dirs_after
       /\ dest_dir \o <<"/">> \o d.media_dir \in d.dirs_after
       /\ dest_dir \in d.dirs_after
       /\ d.dirs_before \subseteq d.dirs_after
       /\ d.new_dir \in d.dirs_before => d.dirs_after = d.dirs_before
       /\ d.dirs_after \subseteq dirs

\* create_dir was called for a date and category whose directory existed.
C7_Witness ==
  /\ lastDir.called
  /\ WellFormedDate(lastDir.date_string)
  /\ lastDir.new_dir \in lastDir.dirs_before
  /\ lastDir.dirs_after = lastDir.dirs_before
  /\ pc = "walking"

\* C8: a filesystem error of create_dir or copy_file ends the run.  After
\* it the run is aborted for good: the failing file is the last one counted
\* and logged, there is no summary, and every copy completed before is in
\* the destination with the content and time of its source file.
C8_ErrorAborts ==
  /\ [](cause = "OSError" =>
          /\ pc = "aborted"
          /\ idx <= Len(walk)
          /\ total_files = idx
          /\ Len(FileLines) = idx
          /\ log_file[Len(log_file)].kind = "file"
          /\ log_file[Len(log_file)].full_path = path_join(walk[idx].root, walk[idx].name)
          /\ Len(SummaryLines) = 0
          /\ Cardinality(copied) = Cardinality(NotIgnoredBefore(idx))
          /\ \A p \in copied :
                /\ p \in DOMAIN files
                /\ \E i \in NotIgnoredBefore(idx) :
                      files[p] = [content |-> walk[i].content, mtime |-> walk[i].mtime])
  /\ [][pc # "aborted"]_vars

\* A filesystem error ended a run that had copied a file and had a file
\* left to process.
C8_Witness ==
  /\ cause = "OSError"
  /\ pc = "aborted"
  /\ copied # {}
  /\ idx < Len(walk)

\* C9: the counters are consistent between two files and in the summary.
\* total_files is the number of files processed and the sum of the
\* extension histogram; photos + videos, exif and ignored are each at most
\* total_files; the run has added total_files - ignored files to the
\* destination, as many under Pictures as photos were counted, as many
\* under Videos as videos, and the rest under Other.
C9_Counters ==
  pc \in {"walking", "done"} =>
    LET under(m) == {p \in copied : SubSeq(p, 1, Len(dest_dir) + 1 + Len(m))
                                      = dest_dir \o <<"/">> \o m}
    IN /\ total_files = idx - 1
       /\ total_files = SumOver(file_exts, DOMAIN file_exts)
       /\ total_photos + total_videos <= total_files
       /\ total_exif <= total_files
       /\ ignored_files <= total_files
       /\ Cardinality(copied) = total_files - ignored_files
       /\ Cardinality(DOMAIN files) - Cardinality(DOMAIN files_at_start)
            = total_files - ignored_files
       /\ Cardinality(under(S_Pictures)) = total_photos
       /\ Cardinality(under(S_Videos)) = total_videos
       /\ Cardinality(under(S_Other))
            = total_files - ignored_files - total_photos - total_videos
       /\ pc = "done" =>
            /\ Len(SummaryLines) = 1
            /\ SummaryLines[1].total_files = total_files
            /\ SummaryLines[1].ignored_files = ignored_files
            /\ SummaryLines[1].total_photos = total_photos
            /\ SummaryLines[1].total_videos = total_videos
            /\ SummaryLines[1].total_exif = total_exif

\* The run on a .jpg with the tag, an .mp4 without and a Thumbs.db returned.
C9_Witness ==
  /\ pc = "done"
  /\ {walk[i].name : i \in DOMAIN walk} = {S_a_jpg, S_b_mp4, S_Thumbs_db}
  /\ total_files = 3 /\ ignored_files = 1 /\ total_photos = 1
  /\ total_videos = 1 /\ total_exif = 1

\* C10: a run without a filesystem error processes every file once and
\* ends with the summary: when it has stopped, the log holds one line per
\* file of the tree, in the order of the walk, and the summary is its last
\* line and occurs once.
C10_RunCompletes ==
  (pc \in {"done", "aborted"} /\ cause # "OSError") =>
    /\ pc = "done"
    /\ Len(FileLines) = Len(walk)
    /\ \A j \in 1..Len(FileLines) :
          FileLines[j].full_path = path_join(walk[j].root, walk[j].name)
    /\ Len(SummaryLines) = 1
    /\ log_file[Len(log_file)].kind = "summary"

====
